---- MODULE Spec2Model ----
(***************************************************************************)
(* perl_clean.py: the text scanners (find_split_idx, filter_comments,      *)
(* decompose_code, extract_vars, extract_vars_assign), the variable index  *)
(* (map_variables, invert_map), the dependency tracer (recursive_trace),   *)
(* the shadow-file writer (create_shadow_file) and the diagnose-and-patch  *)
(* loop (main, runner, parse_err, handle_tainted_var, handle_tainted_env). *)
(*                                                                         *)
(* Text is a sequence of one-character strings.  Indices returned by the   *)
(* scanners are 0-based, as in the Python source.                          *)
(***************************************************************************)
EXTENDS Integers, Sequences, FiniteSets, TLC

VARIABLES
    \* one call of a pure function: its argument, its name, its result
    arg, fn, ret,
    \* decompose_code, one step per loop iteration
    d_file, read_output, line_num, code, perl_lines, d_pc,
    \* the program run: main, runner, parse_err and the two handlers
    fs, preexisting, pc, err, oracle_runs, oracle_log,
    var_to_lines, line_to_vars, assignee_to_assigner,
    taint_err, tainted_line, possibly_tainted, tainted_vars,
    remediations, reports

callVars == <<arg, fn, ret>>
decVars  == <<d_file, read_output, line_num, code, perl_lines, d_pc>>
runVars  == <<fs, preexisting, pc, err, oracle_runs, oracle_log,
              var_to_lines, line_to_vars, assignee_to_assigner,
              taint_err, tainted_line, possibly_tainted, tainted_vars,
              remediations, reports>>
vars == <<arg, fn, ret,
          d_file, read_output, line_num, code, perl_lines, d_pc,
          fs, preexisting, pc, err, oracle_runs, oracle_log,
          var_to_lines, line_to_vars, assignee_to_assigner,
          taint_err, tainted_line, possibly_tainted, tainted_vars,
          remediations, reports>>

(***************************************************************************)
(* Characters and Python's string primitives                               *)
(***************************************************************************)
DQ == "\""
SQ == "'"
BS == "\\"
NL == "\n"

Min(a, b) == IF a <= b THEN a ELSE b
Max(a, b) == IF a >= b THEN a ELSE b

\* every text over the characters S of length at most n
Strings(S, n) == UNION {[1..k -> S] : k \in 0..n}

\* Python's s[lo:hi]: indices are clipped, a negative index counts from the end
PyIndex(s, i) == IF i < 0 THEN Max(0, Len(s) + i) ELSE Min(i, Len(s))
PySlice(s, lo, hi) ==
    LET a == PyIndex(s, lo)
        b == PyIndex(s, hi)
    IN IF a >= b THEN <<>> ELSE SubSeq(s, a + 1, b)
\* Python's s[lo:]
PySliceFrom(s, lo) == PySlice(s, lo, Len(s))

\* Python's str.strip(): leading and trailing whitespace removed
Whitespace == {" ", "\t", "\n", "\r", "\f"}
RECURSIVE lstrip(_)
lstrip(s) ==
    IF s # <<>> /\ s[1] \in Whitespace THEN lstrip(Tail(s)) ELSE s
RECURSIVE rstrip(_)
rstrip(s) ==
    IF s # <<>> /\ s[Len(s)] \in Whitespace
    THEN rstrip(SubSeq(s, 1, Len(s) - 1)) ELSE s
strip(s) == rstrip(lstrip(s))

(***************************************************************************)
(* find_split_idx and filter_comments                                      *)
(***************************************************************************)
\* the loop of find_split_idx from index i on, with the two flags as they
\* stand when iteration i starts
RECURSIVE find_split_scan(_, _, _, _, _)
find_split_scan(perl_line, split_char, i, in_quotes, escaped) ==
    IF i >= Len(perl_line) THEN Len(perl_line)
    ELSE LET char == perl_line[i + 1]
             q == IF char = SQ \/ char = DQ THEN ~in_quotes ELSE in_quotes
             e == IF char = BS THEN ~escaped ELSE escaped
         IN IF char = split_char /\ ~q /\ ~e THEN i
            ELSE find_split_scan(perl_line, split_char, i + 1, q,
                                 IF e /\ char # BS THEN FALSE ELSE e)

find_split_idx(perl_line, split_char) ==
    find_split_scan(perl_line, split_char, 0, FALSE, FALSE)

\* a comment cut one character early
filter_comments_short(perl_line) ==
    PySlice(perl_line, 0, find_split_idx(perl_line, "#") - 1)

filter_comments(perl_line) ==
    PySlice(perl_line, 0, find_split_idx(perl_line, "#"))

(***************************************************************************)
(* Ordered dictionaries (Python dict): a sequence of <<key, value>> pairs  *)
(* in insertion order, each key once                                       *)
(***************************************************************************)
DictKeys(d)   == {d[i][1] : i \in DOMAIN d}
DictHas(d, k) == \E i \in DOMAIN d : d[i][1] = k
DictGet(d, k) == d[CHOOSE i \in DOMAIN d : d[i][1] = k][2]
DictPut(d, k, v) ==
    IF DictHas(d, k)
    THEN [i \in DOMAIN d |-> IF d[i][1] = k THEN <<k, v>> ELSE d[i]]
    ELSE Append(d, <<k, v>>)

InList(x, list) == \E i \in DOMAIN list : list[i] = x
\* list += [x] unless x is in it already
AddUnique(list, x) == IF InList(x, list) THEN list ELSE Append(list, x)

(***************************************************************************)
(* extract_vars and extract_vars_assign                                    *)
(***************************************************************************)
Sigils == {"$", "@", "%", "&", "*"}
Lower  == {"a", "b", "c", "d", "e", "f", "g", "h", "i", "j", "k", "l", "m",
           "n", "o", "p", "q", "r", "s", "t", "u", "v", "w", "x", "y", "z"}
Upper  == {"A", "B", "C", "D", "E", "F", "G", "H", "I", "J", "K", "L", "M",
           "N", "O", "P", "Q", "R", "S", "T", "U", "V", "W", "X", "Y", "Z"}
Digits == {"0", "1", "2", "3", "4", "5", "6", "7", "8", "9"}
IdStart == Lower \cup Upper \cup {"_"}
IdCont  == IdStart \cup Digits

\* the index after the longest run of identifier characters from index j on
RECURSIVE ident_end(_, _)
ident_end(text, j) ==
    IF j < Len(text) /\ text[j + 1] \in IdCont THEN ident_end(text, j + 1)
    ELSE j

\* re.findall(perl_vars_regexp, text) from index i on: the non-overlapping
\* matches of sigil, identifier start, identifier characters, left to right
RECURSIVE re_findall_vars(_, _)
re_findall_vars(text, i) ==
    IF i >= Len(text) THEN <<>>
    ELSE IF /\ text[i + 1] \in Sigils
            /\ i + 1 < Len(text)
            /\ text[i + 2] \in IdStart
         THEN LET j == ident_end(text, i + 2)
              IN <<SubSeq(text, i + 1, j)>> \o re_findall_vars(text, j)
         ELSE re_findall_vars(text, i + 1)

extract_vars(perl_line) == re_findall_vars(filter_comments(perl_line), 0)

extract_vars_assign(perl_line) ==
    LET stmt == filter_comments(perl_line)
        assignment_idx == find_split_idx(stmt, "=")
        before_assignment == PySlice(stmt, 0, assignment_idx)
        after_assignment == PySliceFrom(stmt, assignment_idx + 1)
    IN <<extract_vars(before_assignment), extract_vars(after_assignment)>>

(***************************************************************************)
(* decompose_code                                                          *)
(***************************************************************************)
\* file.readlines(): the content cut after every newline, newlines kept
RECURSIVE readlines(_)
readlines(content) ==
    IF content = <<>> THEN <<>>
    ELSE IF \E k \in DOMAIN content : content[k] = NL
         THEN LET k == CHOOSE i \in DOMAIN content :
                          /\ content[i] = NL
                          /\ \A j \in 1..(i - 1) : content[j] # NL
              IN <<SubSeq(content, 1, k)>>
                     \o readlines(SubSeq(content, k + 1, Len(content)))
         ELSE <<content>>

\* one iteration of "while code != ''": <<code, perl_lines>> after it;
\* num is the loop variable line_num, 0-based
decompose_body(stmt, num, lines) ==
    LET semicolon_idx == find_split_idx(stmt, ";")
        parsed == strip(PySlice(stmt, 0, semicolon_idx + 1))
    IN <<PySliceFrom(stmt, semicolon_idx + 1),
         IF parsed # <<>> THEN Append(lines, <<num + 1, parsed>>) ELSE lines>>

RECURSIVE dc_while(_, _, _)
dc_while(stmt, num, lines) ==
    IF stmt = <<>> THEN lines
    ELSE LET b == decompose_body(stmt, num, lines)
         IN dc_while(b[1], num, b[2])

RECURSIVE dc_for(_, _, _)
dc_for(lines_read, num, lines) ==
    IF num >= Len(lines_read) THEN lines
    ELSE dc_for(lines_read, num + 1,
                dc_while(filter_comments(lines_read[num + 1]), num, lines))

\* decompose_code on a file of the given content
decompose_code(content) == dc_for(readlines(content), 0, <<>>)

(***************************************************************************)
(* map_variables and invert_map                                            *)
(***************************************************************************)
\* "Fill out line --> vars mapping" without the test for duplicates
RECURSIVE mv_fill_mapping_dup(_, _, _, _)
mv_fill_mapping_dup(mapping, variables, k, num) ==
    IF k > Len(variables) THEN mapping
    ELSE LET variable == variables[k]
             m1 == IF DictHas(mapping, variable) THEN mapping
                   ELSE DictPut(mapping, variable, <<>>)
             m2 == DictPut(m1, variable, Append(DictGet(m1, variable), num))
         IN mv_fill_mapping_dup(m2, variables, k + 1, num)

\* "Fill out line --> vars mapping" for the variables from index k on
RECURSIVE mv_fill_mapping(_, _, _, _)
mv_fill_mapping(mapping, variables, k, num) ==
    IF k > Len(variables) THEN mapping
    ELSE LET variable == variables[k]
             m1 == IF DictHas(mapping, variable) THEN mapping
                   ELSE DictPut(mapping, variable, <<>>)
             m2 == DictPut(m1, variable, AddUnique(DictGet(m1, variable), num))
         IN mv_fill_mapping(m2, variables, k + 1, num)

\* the inner loop over assigner_vars: list += [var2] unless it holds var2
RECURSIVE mv_add_assigners(_, _, _)
mv_add_assigners(list, assigner_vars, k) ==
    IF k > Len(assigner_vars) THEN list
    ELSE mv_add_assigners(AddUnique(list, assigner_vars[k]), assigner_vars, k + 1)

\* "Fill out assignee to assigner" for the assignees from index k on
RECURSIVE mv_fill_assignees(_, _, _, _)
mv_fill_assignees(a2a, assignee_vars, assigner_vars, k) ==
    IF k > Len(assignee_vars) THEN a2a
    ELSE LET variable == assignee_vars[k]
             a1 == IF DictHas(a2a, variable) THEN a2a
                   ELSE DictPut(a2a, variable, <<>>)
             a2 == DictPut(a1, variable,
                           mv_add_assigners(DictGet(a1, variable), assigner_vars, 1))
         IN mv_fill_assignees(a2, assignee_vars, assigner_vars, k + 1)

\* the loop over perl_lines from statement k on
RECURSIVE mv_loop(_, _, _, _)
mv_loop(stmts, k, mapping, a2a) ==
    IF k > Len(stmts) THEN <<mapping, a2a>>
    ELSE LET num == stmts[k][1]
             both == extract_vars_assign(stmts[k][2])
             assignee_vars == both[1]
             assigner_vars == both[2]
             variables_in_curr_line == assignee_vars \o assigner_vars
         IN mv_loop(stmts, k + 1,
                    mv_fill_mapping(mapping, variables_in_curr_line, 1, num),
                    mv_fill_assignees(a2a, assignee_vars, assigner_vars, 1))

\* <<mapping, assignee_to_assigner>>
map_variables(stmts) == mv_loop(stmts, 1, <<>>, <<>>)

\* the inner loop of invert_map over value_list from index k on
RECURSIVE im_values(_, _, _, _)
im_values(reversed_map, key, value_list, k) ==
    IF k > Len(value_list) THEN reversed_map
    ELSE LET value == value_list[k]
             r1 == IF DictHas(reversed_map, value) THEN reversed_map
                   ELSE DictPut(reversed_map, value, <<>>)
             r2 == DictPut(r1, value, AddUnique(DictGet(r1, value), key))
         IN im_values(r2, key, value_list, k + 1)

\* the outer loop of invert_map over map.items() from index k on
RECURSIVE im_items(_, _, _)
im_items(reversed_map, map, k) ==
    IF k > Len(map) THEN reversed_map
    ELSE im_items(im_values(reversed_map, map[k][1], map[k][2], 1), map, k + 1)

\* the characters of a variable's spelling, in code-point order
CodePointOrder ==
    <<"$", "%", "&", "*", "0", "1", "2", "3", "4", "5", "6", "7", "8", "9",
      "@", "A", "B", "C", "D", "E", "F", "G", "H", "I", "J", "K", "L", "M",
      "N", "O", "P", "Q", "R", "S", "T", "U", "V", "W", "X", "Y", "Z", "_",
      "a", "b", "c", "d", "e", "f", "g", "h", "i", "j", "k", "l", "m", "n",
      "o", "p", "q", "r", "s", "t", "u", "v", "w", "x", "y", "z">>
ord(c) == CHOOSE i \in DOMAIN CodePointOrder : CodePointOrder[i] = c

\* Python's a <= b on two str
RECURSIVE str_le(_, _)
str_le(a, b) ==
    IF a = <<>> THEN TRUE
    ELSE IF b = <<>> THEN FALSE
    ELSE IF Head(a) = Head(b) THEN str_le(Tail(a), Tail(b))
    ELSE ord(Head(a)) < ord(Head(b))

\* Python's a <= b on two keys of a dict: both int or both str
key_le(a, b, key_type) == IF key_type = "int" THEN a <= b ELSE str_le(a, b)

\* dict(items) with the items left in insertion order
sorted_items_unsorted(d, key_type) == d

\* sorted(items): by key, the keys being distinct
RECURSIVE sorted_items(_, _)
sorted_items(d, key_type) ==
    IF d = <<>> THEN <<>>
    ELSE LET m == CHOOSE i \in DOMAIN d :
                     \A j \in DOMAIN d : key_le(d[i][1], d[j][1], key_type)
         IN <<d[m]>> \o sorted_items([i \in 1..(Len(d) - 1) |->
                                         IF i < m THEN d[i] ELSE d[i + 1]],
                                     key_type)

\* invert_map on a map from str to lists of int, as main calls it
invert_map(map) == sorted_items(im_items(<<>>, map, 1), "int")

\* invert_map on a map from int to lists of str
invert_map_str(map) == sorted_items(im_items(<<>>, map, 1), "str")

(***************************************************************************)
(* recursive_trace                                                         *)
(***************************************************************************)
\* the depth of nested calls at which the interpreter raises RecursionError
RecursionLimit == 6

TraceError(e) == [error |-> e, direct |-> <<>>, indirect |-> <<>>]

\* the merge of one nested call's results without the test against
\* current_values
RECURSIVE rt_merge_keep_direct(_, _, _, _)
rt_merge_keep_direct(secondary_backtraces, trace_results, current_values, k) ==
    IF k > Len(trace_results) THEN secondary_backtraces
    ELSE rt_merge_keep_direct(AddUnique(secondary_backtraces, trace_results[k]),
                              trace_results, current_values, k + 1)

\* "Don't add duplicates": the results of one nested call, from index k on
RECURSIVE rt_merge(_, _, _, _)
rt_merge(secondary_backtraces, trace_results, current_values, k) ==
    IF k > Len(trace_results) THEN secondary_backtraces
    ELSE LET res == trace_results[k]
         IN rt_merge(IF ~InList(res, secondary_backtraces)
                        /\ ~InList(res, current_values)
                     THEN Append(secondary_backtraces, res)
                     ELSE secondary_backtraces,
                     trace_results, current_values, k + 1)

\* "add current value to secondary mapping too if they don't duplicate"
RECURSIVE rt_add_current(_, _, _)
rt_add_current(secondary_backtraces, current_values, k) ==
    IF k > Len(current_values) THEN secondary_backtraces
    ELSE rt_add_current(AddUnique(secondary_backtraces, current_values[k]),
                        current_values, k + 1)

\* rt_call is one call at the given depth of nesting; rt_for is its loop
\* "for var in current_values" from index k on.  An exception raised by a
\* nested call ends every enclosing call.
RECURSIVE rt_call(_, _, _, _)
RECURSIVE rt_for(_, _, _, _, _)
rt_for(current_values, k, secondary_backtraces, mapping, depth) ==
    IF k > Len(current_values)
    THEN [error |-> "none", direct |-> <<>>, indirect |-> secondary_backtraces]
    ELSE LET nested == rt_call(current_values[k], mapping, TRUE, depth + 1)
         IN IF nested.error # "none" THEN nested
            ELSE rt_for(current_values, k + 1,
                        rt_merge(secondary_backtraces, nested.indirect,
                                 current_values, 1),
                        mapping, depth)

rt_call(item, mapping, secondary, depth) ==
    IF depth > RecursionLimit THEN TraceError("RecursionError")
    ELSE IF ~DictHas(mapping, item) THEN TraceError("KeyError")
    ELSE LET current_values == DictGet(mapping, item)
             loop == rt_for(current_values, 1, <<>>, mapping, depth)
         IN IF loop.error # "none" THEN loop
            ELSE IF secondary
                 THEN [error |-> "none", direct |-> <<>>,
                       indirect |-> rt_add_current(loop.indirect,
                                                   current_values, 1)]
                 ELSE [error |-> "none", direct |-> current_values,
                       indirect |-> loop.indirect]

\* recursive_trace(item, mapping), secondary left at its default
recursive_trace(item, mapping) == rt_call(item, mapping, FALSE, 1)

(***************************************************************************)
(* The filesystem and create_shadow_file                                   *)
(***************************************************************************)
\* sys.argv[1] and the two reserved names
target_path           == "target.pl"
shadow_file_name      == "perl_clean_shadow.pl"
shadow_file_test_name == "perl_clean_test.pl"
FileNames == {target_path, shadow_file_name, shadow_file_test_name}

NoFile        == [exists |-> FALSE, content |-> <<>>]
FileOf(text)  == [exists |-> TRUE, content |-> text]
\* os.path.exists
path_exists(fsys, name) == fsys[name].exists
\* os.remove, os.rename
os_remove(fsys, name) == [fsys EXCEPT ![name] = NoFile]
os_rename(fsys, from, to) ==
    [fsys EXCEPT ![to] = fsys[from], ![from] = NoFile]

\* file.writelines(): the lines one after the other
RECURSIVE writelines(_)
writelines(lines) ==
    IF lines = <<>> THEN <<>> ELSE Head(lines) \o writelines(Tail(lines))

\* the "Prepend" loop from prepend k on: read_output[line - 1] becomes
\* f"{code}; {read_output[line - 1]}"; a negative index counts from the end
RECURSIVE csf_prepend(_, _, _)
csf_prepend(lines, prepends, k) ==
    IF k > Len(prepends) THEN [error |-> "none", lines |-> lines]
    ELSE LET read_output_idx == prepends[k][1] - 1
             text == prepends[k][2]
         IN IF read_output_idx >= Len(lines) \/ read_output_idx < -Len(lines)
            THEN [error |-> "IndexError", lines |-> lines]
            ELSE LET at == IF read_output_idx < 0
                           THEN Len(lines) + read_output_idx + 1
                           ELSE read_output_idx + 1
                 IN csf_prepend([lines EXCEPT ![at] = text \o <<";", " ">> \o @],
                                prepends, k + 1)

\* read_output[:-1] += "\n": the slice before the last element is replaced
\* by itself followed by the element "\n"
csf_newline(lines) ==
    IF lines = <<>> THEN << <<NL>> >>
    ELSE SubSeq(lines, 1, Len(lines) - 1) \o << <<NL>> >> \o <<lines[Len(lines)]>>

\* read_output.append(f"{code}\n") for every postpend
csf_postpend(lines, postpends) ==
    lines \o [i \in DOMAIN postpends |-> postpends[i] \o <<NL>>]

\* create_shadow_file writing over the file it read
csf_write_inplace(fsys, perl_filepath, prepends, postpends, filename) ==
    IF ~path_exists(fsys, perl_filepath)
    THEN [error |-> "FileNotFoundError", fs |-> fsys]
    ELSE LET p == csf_prepend(readlines(fsys[perl_filepath].content), prepends, 1)
         IN IF p.error # "none" THEN [error |-> p.error, fs |-> fsys]
            ELSE [error |-> "none",
                  fs |-> [fsys EXCEPT ![perl_filepath] =
                            FileOf(writelines(csf_postpend(csf_newline(p.lines),
                                                           postpends)))]]

\* create_shadow_file after its assertion
csf_write(fsys, perl_filepath, prepends, postpends, filename) ==
    IF ~path_exists(fsys, perl_filepath)
    THEN [error |-> "FileNotFoundError", fs |-> fsys]
    ELSE LET p == csf_prepend(readlines(fsys[perl_filepath].content), prepends, 1)
         IN IF p.error # "none" THEN [error |-> p.error, fs |-> fsys]
            ELSE [error |-> "none",
                  fs |-> [fsys EXCEPT ![filename] =
                            FileOf(writelines(csf_postpend(csf_newline(p.lines),
                                                           postpends)))]]

\* create_shadow_file without its assertion
create_shadow_file_clobber(fsys, perl_filepath, prepends, postpends, filename) ==
    csf_write(fsys, perl_filepath, prepends, postpends, filename)

create_shadow_file(fsys, perl_filepath, prepends, postpends, filename) ==
    IF path_exists(fsys, filename)
    THEN [error |-> "AssertionError", fs |-> fsys]
    ELSE csf_write(fsys, perl_filepath, prepends, postpends, filename)

(***************************************************************************)
(* The texts handle_tainted_var and handle_tainted_env write               *)
(***************************************************************************)
\* taint_str = "use Scalar::Util qw(tainted); say STDERR \"delinstart\";"
TaintStrHead ==
    <<"u", "s", "e", " ", "S", "c", "a", "l", "a", "r", ":", ":", "U", "t",
      "i", "l", " ", "q", "w", "(", "t", "a", "i", "n", "t", "e", "d", ")",
      ";", " ", "s", "a", "y", " ", "S", "T", "D", "E", "R", "R", " ", DQ,
      "d", "e", "l", "i", "n", "s", "t", "a", "r", "t", DQ, ";">>

\* taint_str += f"tainted({var}) ? say STDERR ... ;": the text before var
TaintStrOpen ==
    <<"t", "a", "i", "n", "t", "e", "d", "(">>

\* and the text after var
TaintStrClose ==
    <<")", " ", "?", " ", "s", "a", "y", " ", "S", "T", "D", "E", "R", "R",
      " ", DQ, "t", "a", "i", "n", "t", "e", "d", DQ, " ", ":", " ", "s",
      "a", "y", " ", "S", "T", "D", "E", "R", "R", " ", DQ, "u", "n", "t",
      "a", "i", "n", "t", "e", "d", DQ, ";">>

\* taint_str += "say STDERR \"delinend\";"
TaintStrTail ==
    <<"s", "a", "y", " ", "S", "T", "D", "E", "R", "R", " ", DQ, "d", "e",
      "l", "i", "n", "e", "n", "d", DQ, ";">>

\* "if ($input =~ m{^(.*)$}) { $input = $1 };" up to the first $input
DetaintOpen ==
    <<"i", "f", " ", "(">>

\* between the two $input
DetaintMiddle ==
    <<" ", "=", "~", " ", "m", "{", "^", "(", ".", "*", ")", "$", "}", ")",
      " ", "{", " ">>

\* after the second $input
DetaintClose ==
    <<" ", "=", " ", "$", "1", " ", "}", ";">>

\* the text "$ENV{PATH}"
EnvPath ==
    <<"$", "E", "N", "V", "{", "P", "A", "T", "H", "}">>

\* detainting_scripts = "$ENV{PATH} = '/usr/bin:/bin';"
DetaintPath ==
    <<"$", "E", "N", "V", "{", "P", "A", "T", "H", "}", " ", "=", " ", SQ,
      "/", "u", "s", "r", "/", "b", "i", "n", ":", "/", "b", "i", "n", SQ,
      ";">>

\* detainting_scripts = f"{tainted_var} = '';": the text after tainted_var
DetaintBlank ==
    <<" ", "=", " ", SQ, SQ, ";">>

\* taint_str for the candidates from index k on
RECURSIVE taint_probes(_, _)
taint_probes(candidates, k) ==
    IF k > Len(candidates) THEN <<>>
    ELSE TaintStrOpen \o candidates[k] \o TaintStrClose
             \o taint_probes(candidates, k + 1)

taint_str(candidates) ==
    TaintStrHead \o taint_probes(candidates, 1) \o TaintStrTail

\* detainting_scripts of handle_tainted_var for the variables from index k on
RECURSIVE detainting_scripts(_, _)
detainting_scripts(variables, k) ==
    IF k > Len(variables) THEN <<>>
    ELSE DetaintOpen \o variables[k] \o DetaintMiddle \o variables[k]
             \o DetaintClose \o detainting_scripts(variables, k + 1)

\* detainting_scripts of handle_tainted_env
env_detainting_scripts(tainted_var) ==
    IF tainted_var = EnvPath THEN DetaintPath ELSE tainted_var \o DetaintBlank

\* "for i in range(len(feedback))": the candidates whose verdict is "tainted"
RECURSIVE confirmed_vars(_, _, _)
confirmed_vars(feedback, candidates, i) ==
    IF i > Len(feedback) THEN <<>>
    ELSE (IF feedback[i] = "tainted" THEN <<candidates[i]>> ELSE <<>>)
             \o confirmed_vars(feedback, candidates, i + 1)

\* the summary loop of handle_tainted_var from variable k on: the first
\* exception of a trace ends it
RECURSIVE summary(_, _, _, _, _)
summary(variables, k, num, v2l, a2a) ==
    IF k > Len(variables) THEN [error |-> "none", text |-> <<>>]
    ELSE LET trace == recursive_trace(variables[k], a2a)
         IN IF ~DictHas(v2l, variables[k])
            THEN [error |-> "KeyError", text |-> <<>>]
            ELSE IF trace.error # "none"
            THEN [error |-> trace.error, text |-> <<>>]
            ELSE LET rest == summary(variables, k + 1, num, v2l, a2a)
                 IN IF rest.error # "none" THEN rest
                    ELSE [error |-> "none",
                          text |-> <<[variable |-> variables[k],
                                      line |-> num,
                                      lines |-> DictGet(v2l, variables[k]),
                                      direct |-> trace.direct,
                                      indirect |-> trace.indirect]>>
                                   \o rest.text]

(***************************************************************************)
(* What "unquoted" and "unescaped" mean for a position of a text: a        *)
(* character is escaped when an odd number of consecutive backslashes      *)
(* stands immediately before it; a quote that is not escaped opens a       *)
(* quoted region, and the next quote that is not escaped closes it.        *)
(***************************************************************************)
\* the number of consecutive backslashes immediately before index i
RECURSIVE BackslashRun(_, _)
BackslashRun(text, i) ==
    IF i > 0 /\ text[i] = BS THEN 1 + BackslashRun(text, i - 1) ELSE 0

IsEscaped(text, i) == BackslashRun(text, i) % 2 = 1
IsQuote(text, i)   == text[i + 1] \in {SQ, DQ} /\ ~IsEscaped(text, i)
QuotesBefore(text, i) == Cardinality({j \in 0..(i - 1) : IsQuote(text, j)})
\* index i lies after a quote that opened a region and was not closed yet
InQuotes(text, i) == QuotesBefore(text, i) % 2 = 1
\* index i lies strictly inside a region that is opened and closed
StrictlyInsideQuotes(text, i) ==
    /\ i < Len(text)
    /\ InQuotes(text, i)
    /\ ~IsQuote(text, i)
    /\ \E j \in (i + 1)..(Len(text) - 1) : IsQuote(text, j)
\* the indices of the unquoted, unescaped occurrences of ch
FreeAt(text, ch) ==
    {i \in 0..(Len(text) - 1) :
        text[i + 1] = ch /\ ~IsEscaped(text, i) /\ ~InQuotes(text, i)}
\* the first of them, or the length of the text when there is none
FirstFree(text, ch) ==
    IF FreeAt(text, ch) = {} THEN Len(text)
    ELSE CHOOSE i \in FreeAt(text, ch) : \A j \in FreeAt(text, ch) : i <= j

(***************************************************************************)
(* Idle values of the three groups of variables                            *)
(***************************************************************************)
CallIdle == arg = <<>> /\ fn = "idle" /\ ret = <<>>
DecIdle  ==
    /\ d_file = <<>> /\ read_output = <<>> /\ line_num = 0
    /\ code = <<>> /\ perl_lines = <<>> /\ d_pc = "idle"
RunIdle  ==
    /\ fs = <<>> /\ preexisting = {} /\ pc = "idle" /\ err = "none"
    /\ oracle_runs = 0 /\ oracle_log = <<>>
    /\ var_to_lines = <<>> /\ line_to_vars = <<>> /\ assignee_to_assigner = <<>>
    /\ taint_err = <<>> /\ tainted_line = 0 /\ possibly_tainted = <<>>
    /\ tainted_vars = <<>> /\ remediations = 0 /\ reports = <<>>

(***************************************************************************)
(* SpecScan: find_split_idx and filter_comments on every short text        *)
(***************************************************************************)
MaxScanLen == 5
ScanChars  == {DQ, SQ, BS, ";", "#", "a"}
\* find_split_idx asserts that the split character is no quote and no backslash
SplitChars == ScanChars \ {DQ, SQ, BS}

InitScan ==
    /\ arg \in Strings(ScanChars, MaxScanLen)
    /\ fn = "none" /\ ret = <<>>
    /\ DecIdle /\ RunIdle

Call_find_split_idx ==
    /\ fn = "none"
    /\ \E split_char \in SplitChars :
          ret' = [split_char |-> split_char,
                  idx |-> find_split_idx(arg, split_char)]
    /\ fn' = "find_split_idx"
    /\ UNCHANGED <<arg, decVars, runVars>>

Call_filter_comments ==
    /\ fn = "none"
    /\ ret' = filter_comments(arg)
    /\ fn' = "filter_comments"
    /\ UNCHANGED <<arg, decVars, runVars>>

NextScan == Call_find_split_idx \/ Call_filter_comments

SpecScan == InitScan /\ [][NextScan]_vars

\* C6: find_split_idx never returns the index of a character that lies
\* strictly inside a quoted region (escaped quotes neither open nor close a
\* region) or that follows an odd number of consecutive backslashes.
C6_SplitNeverQuotedOrEscaped ==
    (fn = "find_split_idx" /\ ret.idx < Len(arg)) =>
        /\ ~StrictlyInsideQuotes(arg, ret.idx)
        /\ ~IsEscaped(arg, ret.idx)

\* the second half of C6 alone: the returned character is never escaped
C6_SplitNeverEscaped ==
    (fn = "find_split_idx" /\ ret.idx < Len(arg)) => ~IsEscaped(arg, ret.idx)

\* C7: filter_comments is idempotent: stripping the comment of a stripped
\* line changes nothing.
C7_FilterCommentsIdempotent ==
    fn = "filter_comments" => filter_comments(ret) = ret

\* a line with a comment has been stripped
C7_Witness ==
    fn = "filter_comments" /\ Len(ret) < Len(arg) /\ Len(ret) > 0

(***************************************************************************)
(* SpecAssign: extract_vars_assign, and map_variables on one statement     *)
(***************************************************************************)
MaxStmtLen  == 5
AssignChars == {"$", "a", "=", DQ, BS}

InitAssign ==
    /\ arg \in Strings(AssignChars, MaxStmtLen)
    /\ fn = "none" /\ ret = <<>>
    /\ DecIdle /\ RunIdle

Call_extract_vars_assign ==
    /\ fn = "none"
    /\ ret' = extract_vars_assign(arg)
    /\ fn' = "extract_vars_assign"
    /\ UNCHANGED <<arg, decVars, runVars>>

\* the statement stands alone on line 1
Call_map_variables ==
    /\ fn = "none"
    /\ ret' = map_variables(<< <<1, arg>> >>)
    /\ fn' = "map_variables"
    /\ UNCHANGED <<arg, decVars, runVars>>

NextAssign == Call_extract_vars_assign \/ Call_map_variables

SpecAssign == InitAssign /\ [][NextAssign]_vars

\* C4: on a statement with no unquoted, unescaped '=' extract_vars_assign
\* returns no assignee and every variable of the statement as an assigner,
\* and map_variables records no dependsOn entry for the statement.
C4_NoAssignmentNoAssignee ==
    FreeAt(arg, "=") = {} =>
        /\ fn = "extract_vars_assign" =>
              ret = <<<<>>, re_findall_vars(arg, 0)>>
        /\ fn = "map_variables" => ret[2] = <<>>

\* C5: on a statement with an unquoted, unescaped '=' the assignees are the
\* variables left of the first such '=' and the assigners the variables
\* right of it, each in left-to-right order.
C5_SplitAtFirstAssignment ==
    (fn = "extract_vars_assign" /\ FreeAt(arg, "=") # {}) =>
        LET i == FirstFree(arg, "=")
        IN ret = <<re_findall_vars(PySlice(arg, 0, i), 0),
                   re_findall_vars(PySliceFrom(arg, i + 1), 0)>>

(***************************************************************************)
(* SpecDecomp: decompose_code on every short file, one loop iteration per  *)
(* step                                                                    *)
(***************************************************************************)
MaxFileLen  == 5
DecompChars == {DQ, BS, ";", "#", " ", NL}

InitDecomp ==
    /\ d_file \in Strings(DecompChars, MaxFileLen)
    /\ read_output = <<>> /\ line_num = 0 /\ code = <<>> /\ perl_lines = <<>>
    /\ d_pc = "open"
    /\ CallIdle /\ RunIdle

\* read_output = file.readlines()
Dec_readlines ==
    /\ d_pc = "open"
    /\ read_output' = readlines(d_file)
    /\ line_num' = 0
    /\ perl_lines' = <<>>
    /\ d_pc' = "for"
    /\ UNCHANGED <<d_file, code, callVars, runVars>>

\* the for loop takes the next line and strips its comment
Dec_for ==
    /\ d_pc = "for"
    /\ line_num < Len(read_output)
    /\ code' = filter_comments(read_output[line_num + 1])
    /\ d_pc' = "while"
    /\ UNCHANGED <<d_file, read_output, line_num, perl_lines, callVars, runVars>>

\* one iteration of the while loop
Dec_while ==
    /\ d_pc = "while"
    /\ code # <<>>
    /\ LET b == decompose_body(code, line_num, perl_lines)
       IN code' = b[1] /\ perl_lines' = b[2]
    /\ UNCHANGED <<d_file, read_output, line_num, d_pc, callVars, runVars>>

\* the while loop ends: on to the next line
Dec_while_end ==
    /\ d_pc = "while"
    /\ code = <<>>
    /\ line_num' = line_num + 1
    /\ d_pc' = "for"
    /\ UNCHANGED <<d_file, read_output, code, perl_lines, callVars, runVars>>

\* return perl_lines
Dec_return ==
    /\ d_pc = "for"
    /\ line_num >= Len(read_output)
    /\ d_pc' = "done"
    /\ UNCHANGED <<d_file, read_output, line_num, code, perl_lines,
                   callVars, runVars>>

NextDecomp ==
    Dec_readlines \/ Dec_for \/ Dec_while \/ Dec_while_end \/ Dec_return

SpecDecomp == InitDecomp /\ [][NextDecomp]_vars

\* the statements of one comment-free line from index start on: each prefix
\* ending at an unquoted, unescaped ';', trimmed, and the trimmed rest of
\* the line, none of them empty
RECURSIVE StatementsFrom(_, _, _)
StatementsFrom(text, start, n) ==
    IF start >= Len(text) THEN <<>>
    ELSE LET T == {i \in FreeAt(text, ";") : i >= start}
             stop == IF T = {} THEN Len(text) - 1
                     ELSE CHOOSE i \in T : \A j \in T : i <= j
             piece == strip(PySlice(text, start, stop + 1))
         IN (IF piece # <<>> THEN << <<n, piece>> >> ELSE <<>>)
                \o StatementsFrom(text, stop + 1, n)

RECURSIVE StatementsOfLines(_, _)
StatementsOfLines(lines_read, n) ==
    IF n > Len(lines_read) THEN <<>>
    ELSE StatementsFrom(PySlice(lines_read[n], 0, FirstFree(lines_read[n], "#")),
                        0, n)
             \o StatementsOfLines(lines_read, n + 1)

\* C8: decompose_code emits, line by line and left to right, each prefix of
\* the comment-free line that ends at an unquoted, unescaped ';' as one
\* trimmed statement tagged with the 1-based line number, never an empty
\* statement and never comment text.
C8_StatementsAtFreeSemicolons ==
    d_pc = "done" => perl_lines = StatementsOfLines(readlines(d_file), 1)

(***************************************************************************)
(* SpecTrace: recursive_trace on every small assignee-to-assigner map      *)
(***************************************************************************)
MaxDeps   == 2
VarA      == <<"$", "a">>
VarB      == <<"$", "b">>
VarC      == <<"$", "c">>
TraceVars == {VarA, VarB, VarC}
TraceVarSeq == <<VarA, VarB, VarC>>

\* the assigner lists map_variables can build: no variable twice
DepLists ==
    {l \in Strings(TraceVars, MaxDeps) :
        \A i, j \in DOMAIN l : i # j => l[i] # l[j]}

\* the map with the given keys and the given list for each key
GraphOf(keys, deps) ==
    SelectSeq([i \in DOMAIN TraceVarSeq |->
                  <<TraceVarSeq[i], deps[TraceVarSeq[i]]>>],
              LAMBDA e : e[1] \in keys)

InitTrace ==
    /\ \E keys \in SUBSET TraceVars, deps \in [TraceVars -> DepLists],
          item \in TraceVars :
          arg = [item |-> item, mapping |-> GraphOf(keys, deps)]
    /\ fn = "none" /\ ret = <<>>
    /\ DecIdle /\ RunIdle

Call_recursive_trace ==
    /\ fn = "none"
    /\ ret' = recursive_trace(arg.item, arg.mapping)
    /\ fn' = "recursive_trace"
    /\ UNCHANGED <<arg, decVars, runVars>>

NextTrace == Call_recursive_trace

SpecTrace == InitTrace /\ [][NextTrace]_vars

\* every variable of the map, assignee or assigner, is a key of it
AllRecorded(mapping) ==
    \A i \in DOMAIN mapping :
        \A j \in DOMAIN mapping[i][2] : DictHas(mapping, mapping[i][2][j])

\* C2: on a map in which every variable has an entry, cyclic or not,
\* recursive_trace returns, and its direct and indirect lists share no
\* variable.
C2_TraceTerminatesOnCycles ==
    (fn = "recursive_trace" /\ DictHas(arg.mapping, arg.item)
        /\ AllRecorded(arg.mapping)) =>
        /\ ret.error = "none"
        /\ \A i \in DOMAIN ret.direct : ~InList(ret.direct[i], ret.indirect)

\* C3: recursive_trace never raises an error for a variable without an
\* entry in the map.
C3_TraceNoErrorOnMissingKey ==
    fn = "recursive_trace" => ret.error # "KeyError"

(***************************************************************************)
(* SpecIndex: the variable index of main (map_variables, then invert_map)  *)
(* on every short statement list, and invert_map on every small map        *)
(***************************************************************************)
MaxStmts == 2
MaxLine  == 2
MaxVals  == 2

IndexVars  == {VarA, VarB}
IndexLines == 1..MaxLine

\* the texts of a list one after the other
RECURSIVE Join(_)
Join(texts) == IF texts = <<>> THEN <<>> ELSE Head(texts) \o Join(Tail(texts))

\* statements: an assignment of some variables to at most one variable, or
\* a use of some variables
IndexStmtTexts ==
    {Join(lhs) \o <<"=">> \o Join(rhs) :
        lhs \in Strings(IndexVars, 1),
        rhs \in {<<>>, <<VarB>>, <<VarA, VarB>>}}
    \cup {<<"x", " ">> \o v : v \in IndexVars}

IndexStmts == IndexLines \X IndexStmtTexts

\* maps from variables to lists of line numbers: the keys in any order, each
\* once
IndexMaps ==
    {m \in Strings(IndexVars \X Strings(IndexLines, MaxVals), Cardinality(IndexVars)) :
        \A i, j \in DOMAIN m : m[i][1] = m[j][1] => i = j}

InitIndex ==
    /\ arg \in [kind : {"stmts"}, val : Strings(IndexStmts, MaxStmts)]
                 \cup [kind : {"map"}, val : IndexMaps]
    /\ fn = "none" /\ ret = <<>>
    /\ DecIdle /\ RunIdle

\* main: var_to_lines, assignee_to_assigner = map_variables(...), then
\* line_to_vars = invert_map(var_to_lines)
Call_index ==
    /\ fn = "none" /\ arg.kind = "stmts"
    /\ LET maps == map_variables(arg.val)
       IN ret' = [var_to_lines |-> maps[1],
                  assignee_to_assigner |-> maps[2],
                  line_to_vars |-> invert_map(maps[1])]
    /\ fn' = "index"
    /\ UNCHANGED <<arg, decVars, runVars>>

\* invert_map, and invert_map of its result
Call_invert_map ==
    /\ fn = "none" /\ arg.kind = "map"
    /\ ret' = [once |-> invert_map(arg.val),
               twice |-> invert_map_str(invert_map(arg.val))]
    /\ fn' = "invert_map"
    /\ UNCHANGED <<arg, decVars, runVars>>

NextIndex == Call_index \/ Call_invert_map

SpecIndex == InitIndex /\ [][NextIndex]_vars

\* a list holds no element twice
NoDuplicate(list) == \A i, j \in DOMAIN list : list[i] = list[j] => i = j

\* the values of the lists of a map
DictValues(d) == UNION {{d[i][2][k] : k \in DOMAIN d[i][2]} : i \in DOMAIN d}

\* x is in the list of key k of map d
Listed(d, k, x) == DictHas(d, k) /\ InList(x, DictGet(d, k))

KeysAscending(d, key_type) ==
    \A i, j \in DOMAIN d :
        i < j => key_le(d[i][1], d[j][1], key_type) /\ d[i][1] # d[j][1]

\* C16: for a map whose lists are all non-empty, invert_map applied twice
\* gives a map with the keys of the original, each once; the result of each
\* application has its keys in ascending order and no element twice in a
\* list.
C16_InvertRoundTripKeys ==
    (fn = "invert_map" /\ \A i \in DOMAIN arg.val : arg.val[i][2] # <<>>) =>
        /\ DictKeys(ret.twice) = DictKeys(arg.val)
        /\ Len(ret.twice) = Len(arg.val)
        /\ KeysAscending(ret.once, "int")
        /\ KeysAscending(ret.twice, "str")
        /\ \A i \in DOMAIN ret.once : NoDuplicate(ret.once[i][2])
        /\ \A i \in DOMAIN ret.twice : NoDuplicate(ret.twice[i][2])

\* a map given with its keys in descending order, a line number twice in a
\* list and two lines in all
C16_Witness ==
    /\ fn = "invert_map"
    /\ arg.val = << <<VarB, <<2, 1>> >>, <<VarA, <<2, 2>> >> >>
    /\ ret.once = << <<1, <<VarB>> >>, <<2, <<VarB, VarA>> >> >>
    /\ DictKeys(ret.twice) = {VarA, VarB}

(***************************************************************************)
(* SpecShadow: create_shadow_file on every short source file               *)
(***************************************************************************)
MaxShadowLen == 3
MaxPrepends  == 2

ShadowChars   == {"a", NL}
PrependLines  == 1..MaxShadowLen
PrependCodes  == {<<"X">>, <<"Y">>}
PostpendCodes == {<<"P">>}

\* the directory before the call: the source file and no shadow file
ShadowFs(content) ==
    [name \in FileNames |->
        IF name = target_path THEN FileOf(content) ELSE NoFile]

InitShadow ==
    /\ arg \in [content : Strings(ShadowChars, MaxShadowLen),
                prepends : Strings(PrependLines \X PrependCodes, MaxPrepends),
                postpends : Strings(PostpendCodes, 1)]
    /\ fn = "none" /\ ret = <<>>
    /\ DecIdle /\ RunIdle

Call_create_shadow_file ==
    /\ fn = "none"
    /\ ret' = create_shadow_file(ShadowFs(arg.content), target_path,
                                 arg.prepends, arg.postpends, shadow_file_name)
    /\ fn' = "create_shadow_file"
    /\ UNCHANGED <<arg, decVars, runVars>>

NextShadow == Call_create_shadow_file

SpecShadow == InitShadow /\ [][NextShadow]_vars

\* the lines of the file create_shadow_file wrote
WrittenLines == readlines(ret.fs[shadow_file_name].content)

\* C17: with two different prepends for the same line, the file written has
\* a line made of the first prepend, "; ", the second prepend, "; " and the
\* content the line had in the source.
C17_PrependsInGivenOrder ==
    (/\ fn = "create_shadow_file" /\ ret.error = "none"
     /\ Len(arg.prepends) = 2
     /\ arg.prepends[1][1] = arg.prepends[2][1]
     /\ arg.prepends[1][2] # arg.prepends[2][2]) =>
        \E k \in DOMAIN WrittenLines :
            WrittenLines[k] = arg.prepends[1][2] \o <<";", " ">>
                                \o arg.prepends[2][2] \o <<";", " ">>
                                \o readlines(arg.content)[arg.prepends[1][1]]

\* C18: with no prepends and no postpends the file written has the lines of
\* the source: as many, and the same content at each position.
C18_PlainCopyKeepsLines ==
    (/\ fn = "create_shadow_file" /\ ret.error = "none"
     /\ arg.prepends = <<>> /\ arg.postpends = <<>>) =>
        WrittenLines = readlines(arg.content)

(***************************************************************************)
(* Spec: one run of the program.  The interpreter is the environment: each *)
(* taint_check returns any diagnostic about any line of the file it ran.   *)
(***************************************************************************)
\* the number of diagnostics after which the interpreter reports nothing
MaxDiagnostics == 2

\* the text of another environment entry
EnvOther ==
    <<"$", "E", "N", "V", "{", "I", "F", "S", "}">>

\* a tainted read, a copy, a use of both, a last statement
ProgramChain ==
    <<"$", "u", "=", "<", ">", ";", NL, "$", "v", "=", "$", "u", ";", NL,
      "x", " ", "$", "u", ",", "$", "v", ";", NL, "1", ";", NL>>

\* $A is used and never assigned
ProgramArgv ==
    <<"$", "v", "=", "$", "A", ";", NL, "x", " ", "$", "v", ";", NL, "1",
      ";", NL>>

\* $a and $b are assigned from each other
ProgramCycle ==
    <<"$", "a", "=", "$", "b", ";", NL, "$", "b", "=", "$", "a", ";", NL,
      "x", " ", "$", "a", ";", NL, "1", ";", NL>>

\* the use is the last line, which has no newline
ProgramLast ==
    <<"$", "u", "=", "<", ">", ";", NL, "x", " ", "$", "u", ";">>

\* the content of a file left at a reserved name
StaleContent ==
    <<"1", ";", NL>>

Programs == {ProgramChain, ProgramArgv, ProgramCycle, ProgramLast}
EnvEntries == {EnvPath, EnvOther}

NoDiagnostic == [kind |-> "none", line |-> 0, env |-> <<>>]
\* no exception; an exception has its type, the step that raised it and the
\* diagnostic its message quotes
NoError      == [type |-> "none", at |-> "none", diagnostic |-> NoDiagnostic]

\* what str(result.stderr) can hold after a run of the file: nothing, an
\* "Insecure dependency ... line L." or an "Insecure $ENV{..} ... line L."
\* text, or a text of neither shape, which names a line (1) or none (0)
Diagnostics(text) ==
    {NoDiagnostic}
    \cup [kind : {"var"}, line : 1..Len(readlines(text)), env : {<<>>}]
    \cup [kind : {"env"}, line : 1..Len(readlines(text)), env : EnvEntries]
    \cup [kind : {"other"}, line : {0, 1}, env : {<<>>}]

Init ==
    /\ \E program \in Programs, occupied \in SUBSET {shadow_file_name,
                                                     shadow_file_test_name} :
          /\ preexisting = occupied
          /\ fs = [name \in FileNames |->
                      IF name = target_path THEN FileOf(program)
                      ELSE IF name \in occupied THEN FileOf(StaleContent)
                      ELSE NoFile]
    /\ pc = "main" /\ err = NoError
    /\ oracle_runs = 0 /\ oracle_log = <<>>
    /\ var_to_lines = <<>> /\ line_to_vars = <<>> /\ assignee_to_assigner = <<>>
    /\ taint_err = NoDiagnostic /\ tainted_line = 0
    /\ possibly_tainted = <<>> /\ tainted_vars = <<>>
    /\ remediations = 0 /\ reports = <<>>
    /\ CallIdle /\ DecIdle

\* an uncaught exception ends the run
Raise(type) ==
    /\ pc' = "crashed"
    /\ err' = [type |-> type, at |-> pc, diagnostic |-> NoDiagnostic]

\* main: the three maps of the original file
Main_index ==
    /\ pc = "main"
    /\ LET maps == map_variables(decompose_code(fs[target_path].content))
       IN /\ var_to_lines' = maps[1]
          /\ assignee_to_assigner' = maps[2]
          /\ line_to_vars' = invert_map(maps[1])
    /\ pc' = "main_create"
    /\ UNCHANGED <<fs, preexisting, err, oracle_runs, oracle_log, taint_err,
                   tainted_line, possibly_tainted, tainted_vars, remediations,
                   reports, callVars, decVars>>

\* main: create_shadow_file(sys.argv[1], [], [])
Main_create_shadow ==
    /\ pc = "main_create"
    /\ LET r == create_shadow_file(fs, target_path, <<>>, <<>>, shadow_file_name)
       IN IF r.error # "none"
          THEN Raise(r.error) /\ UNCHANGED fs
          ELSE fs' = r.fs /\ pc' = "runner" /\ UNCHANGED err
    /\ UNCHANGED <<preexisting, oracle_runs, oracle_log, var_to_lines,
                   line_to_vars, assignee_to_assigner, taint_err, tainted_line,
                   possibly_tainted, tainted_vars, remediations, reports,
                   callVars, decVars>>

\* runner: taint_check(perl_filename, perl_params) and the test of the while
\* loop; an empty diagnostic ends the loop (Done)
Runner_taint_check ==
    /\ pc = "runner"
    /\ \E d \in Diagnostics(fs[shadow_file_name].content) :
          /\ d.kind # "none" => Len(oracle_log) < MaxDiagnostics
          /\ taint_err' = d
          /\ oracle_log' = Append(oracle_log, d)
          /\ pc' = IF d.kind = "none" THEN "done" ELSE "parse_err"
    /\ oracle_runs' = oracle_runs + 1
    /\ UNCHANGED <<fs, preexisting, err, var_to_lines, line_to_vars,
                   assignee_to_assigner, tainted_line, possibly_tainted,
                   tainted_vars, remediations, reports, callVars, decVars>>

\* parse_err: the diagnostic matches tainted_var_regex
Parse_err_var ==
    /\ pc = "parse_err" /\ taint_err.kind = "var"
    /\ pc' = "hv_lookup"
    /\ UNCHANGED <<fs, preexisting, err, oracle_runs, oracle_log, var_to_lines,
                   line_to_vars, assignee_to_assigner, taint_err, tainted_line,
                   possibly_tainted, tainted_vars, remediations, reports,
                   callVars, decVars>>

\* parse_err: the diagnostic matches tainted_env_regex only
Parse_err_env ==
    /\ pc = "parse_err" /\ taint_err.kind = "env"
    /\ pc' = "he_create"
    /\ UNCHANGED <<fs, preexisting, err, oracle_runs, oracle_log, var_to_lines,
                   line_to_vars, assignee_to_assigner, taint_err, tainted_line,
                   possibly_tainted, tainted_vars, remediations, reports,
                   callVars, decVars>>

\* parse_err with an assertion that has no message
Parse_err_unhandled_bare ==
    /\ pc = "parse_err" /\ taint_err.kind = "other"
    /\ Raise("AssertionError")
    /\ UNCHANGED <<fs, preexisting, oracle_runs, oracle_log, var_to_lines,
                   line_to_vars, assignee_to_assigner, taint_err, tainted_line,
                   possibly_tainted, tainted_vars, remediations, reports,
                   callVars, decVars>>

\* parse_err: assert 0 == 1, f"... Error message: {taint_error}"
Parse_err_unhandled ==
    /\ pc = "parse_err" /\ taint_err.kind = "other"
    /\ pc' = "crashed"
    /\ err' = [type |-> "AssertionError", at |-> pc, diagnostic |-> taint_err]
    /\ UNCHANGED <<fs, preexisting, oracle_runs, oracle_log, var_to_lines,
                   line_to_vars, assignee_to_assigner, taint_err, tainted_line,
                   possibly_tainted, tainted_vars, remediations, reports,
                   callVars, decVars>>

\* handle_tainted_var: possibly_tainted = line_to_vars[tainted_line]
HV_lookup ==
    /\ pc = "hv_lookup"
    /\ tainted_line' = taint_err.line
    /\ IF DictHas(line_to_vars, taint_err.line)
       THEN /\ possibly_tainted' = DictGet(line_to_vars, taint_err.line)
            /\ pc' = "hv_create_test" /\ UNCHANGED err
       ELSE Raise("KeyError") /\ UNCHANGED possibly_tainted
    /\ tainted_vars' = <<>>
    /\ UNCHANGED <<fs, preexisting, oracle_runs, oracle_log, var_to_lines,
                   line_to_vars, assignee_to_assigner, taint_err, remediations,
                   reports, callVars, decVars>>

\* handle_tainted_var: the secondary shadow file with the probes
HV_create_test ==
    /\ pc = "hv_create_test"
    /\ LET r == create_shadow_file(fs, shadow_file_name,
                                   << <<tainted_line, taint_str(possibly_tainted)>> >>,
                                   <<>>, shadow_file_test_name)
       IN IF r.error # "none"
          THEN Raise(r.error) /\ UNCHANGED fs
          ELSE fs' = r.fs /\ pc' = "hv_taint_check" /\ UNCHANGED err
    /\ UNCHANGED <<preexisting, oracle_runs, oracle_log, var_to_lines,
                   line_to_vars, assignee_to_assigner, taint_err, tainted_line,
                   possibly_tainted, tainted_vars, remediations, reports,
                   callVars, decVars>>

\* handle_tainted_var: the secondary run prints one verdict per candidate
\* between the sentinels
HV_taint_check ==
    /\ pc = "hv_taint_check"
    /\ \E feedback \in [DOMAIN possibly_tainted -> {"tainted", "untainted"}] :
          tainted_vars' = confirmed_vars(feedback, possibly_tainted, 1)
    /\ oracle_runs' = oracle_runs + 1
    /\ pc' = "hv_remove_test"
    /\ UNCHANGED <<fs, preexisting, err, oracle_log, var_to_lines, line_to_vars,
                   assignee_to_assigner, taint_err, tainted_line,
                   possibly_tainted, remediations, reports, callVars, decVars>>

\* handle_tainted_var: the secondary run ends before the probes, and
\* stderr.index("delinstart") raises
HV_taint_check_no_sentinel ==
    /\ pc = "hv_taint_check"
    /\ oracle_runs' = oracle_runs + 1
    /\ Raise("ValueError")
    /\ UNCHANGED <<fs, preexisting, oracle_log, var_to_lines, line_to_vars,
                   assignee_to_assigner, taint_err, tainted_line,
                   possibly_tainted, tainted_vars, remediations, reports,
                   callVars, decVars>>

\* handle_tainted_var: os.remove(shadow_file_test_name)
HV_remove_test ==
    /\ pc = "hv_remove_test"
    /\ fs' = os_remove(fs, shadow_file_test_name)
    /\ pc' = "hv_create_patch"
    /\ UNCHANGED <<preexisting, err, oracle_runs, oracle_log, var_to_lines,
                   line_to_vars, assignee_to_assigner, taint_err, tainted_line,
                   possibly_tainted, tainted_vars, remediations, reports,
                   callVars, decVars>>

\* handle_tainted_var: the patched variant, written under the test name
HV_create_patch ==
    /\ pc = "hv_create_patch"
    /\ LET r == create_shadow_file(fs, shadow_file_name,
                                   << <<tainted_line,
                                        detainting_scripts(tainted_vars, 1)>> >>,
                                   <<>>, shadow_file_test_name)
       IN IF r.error # "none"
          THEN Raise(r.error) /\ UNCHANGED fs
          ELSE fs' = r.fs /\ pc' = "hv_remove_shadow" /\ UNCHANGED err
    /\ UNCHANGED <<preexisting, oracle_runs, oracle_log, var_to_lines,
                   line_to_vars, assignee_to_assigner, taint_err, tainted_line,
                   possibly_tainted, tainted_vars, remediations, reports,
                   callVars, decVars>>

\* handle_tainted_var: os.remove(shadow_file_name)
HV_remove_shadow ==
    /\ pc = "hv_remove_shadow"
    /\ fs' = os_remove(fs, shadow_file_name)
    /\ pc' = "hv_rename"
    /\ UNCHANGED <<preexisting, err, oracle_runs, oracle_log, var_to_lines,
                   line_to_vars, assignee_to_assigner, taint_err, tainted_line,
                   possibly_tainted, tainted_vars, remediations, reports,
                   callVars, decVars>>

\* handle_tainted_var: os.rename(shadow_file_test_name, shadow_file_name)
HV_rename ==
    /\ pc = "hv_rename"
    /\ fs' = os_rename(fs, shadow_file_test_name, shadow_file_name)
    /\ remediations' = remediations + 1
    /\ pc' = "hv_summary"
    /\ UNCHANGED <<preexisting, err, oracle_runs, oracle_log, var_to_lines,
                   line_to_vars, assignee_to_assigner, taint_err, tainted_line,
                   possibly_tainted, tainted_vars, reports, callVars, decVars>>

\* handle_tainted_var: the summary with the traces, printed by runner
HV_summary ==
    /\ pc = "hv_summary"
    /\ LET r == summary(tainted_vars, 1, tainted_line, var_to_lines,
                        assignee_to_assigner)
       IN IF r.error # "none"
          THEN Raise(r.error) /\ UNCHANGED reports
          ELSE /\ reports' = Append(reports, [kind |-> "var", text |-> r.text])
               /\ pc' = "runner" /\ UNCHANGED err
    /\ UNCHANGED <<fs, preexisting, oracle_runs, oracle_log, var_to_lines,
                   line_to_vars, assignee_to_assigner, taint_err, tainted_line,
                   possibly_tainted, tainted_vars, remediations, callVars,
                   decVars>>

\* handle_tainted_env: the patched variant, written under the test name
HE_create ==
    /\ pc = "he_create"
    /\ tainted_line' = taint_err.line
    /\ LET r == create_shadow_file(fs, shadow_file_name,
                                   << <<taint_err.line,
                                        env_detainting_scripts(taint_err.env)>> >>,
                                   <<>>, shadow_file_test_name)
       IN IF r.error # "none"
          THEN Raise(r.error) /\ UNCHANGED fs
          ELSE fs' = r.fs /\ pc' = "he_remove_shadow" /\ UNCHANGED err
    /\ UNCHANGED <<preexisting, oracle_runs, oracle_log, var_to_lines,
                   line_to_vars, assignee_to_assigner, taint_err,
                   possibly_tainted, tainted_vars, remediations, reports,
                   callVars, decVars>>

\* handle_tainted_env: os.remove(shadow_file_name)
HE_remove_shadow ==
    /\ pc = "he_remove_shadow"
    /\ fs' = os_remove(fs, shadow_file_name)
    /\ pc' = "he_rename"
    /\ UNCHANGED <<preexisting, err, oracle_runs, oracle_log, var_to_lines,
                   line_to_vars, assignee_to_assigner, taint_err, tainted_line,
                   possibly_tainted, tainted_vars, remediations, reports,
                   callVars, decVars>>

\* handle_tainted_env: os.rename, and the summary, printed by runner
HE_rename ==
    /\ pc = "he_rename"
    /\ fs' = os_rename(fs, shadow_file_test_name, shadow_file_name)
    /\ remediations' = remediations + 1
    /\ reports' = Append(reports, [kind |-> "env", text |-> taint_err.env])
    /\ pc' = "runner"
    /\ UNCHANGED <<preexisting, err, oracle_runs, oracle_log, var_to_lines,
                   line_to_vars, assignee_to_assigner, taint_err, tainted_line,
                   possibly_tainted, tainted_vars, callVars, decVars>>

\* main: os.remove(shadow_file_name) after runner returned
Main_remove_shadow ==
    /\ pc = "done"
    /\ fs' = os_remove(fs, shadow_file_name)
    /\ pc' = "exit"
    /\ UNCHANGED <<preexisting, err, oracle_runs, oracle_log, var_to_lines,
                   line_to_vars, assignee_to_assigner, taint_err, tainted_line,
                   possibly_tainted, tainted_vars, remediations, reports,
                   callVars, decVars>>

Next ==
    \/ Main_index \/ Main_create_shadow \/ Runner_taint_check
    \/ Parse_err_var \/ Parse_err_env \/ Parse_err_unhandled
    \/ HV_lookup \/ HV_create_test \/ HV_taint_check
    \/ HV_taint_check_no_sentinel \/ HV_remove_test \/ HV_create_patch
    \/ HV_remove_shadow \/ HV_rename \/ HV_summary
    \/ HE_create \/ HE_remove_shadow \/ HE_rename
    \/ Main_remove_shadow

Spec == Init /\ [][Next]_vars

\* line n (1-based) of a file's content
LineOf(text, n) == readlines(text)[n]

\* the interpreter reported one variable taint, the secondary run confirmed
\* at least one candidate, and every later run reported nothing
OneVariableTaint ==
    /\ Len(oracle_log) >= 1
    /\ oracle_log[1].kind = "var"
    /\ \A i \in 2..Len(oracle_log) : oracle_log[i].kind = "none"
    /\ tainted_vars # <<>>

\* C1: when the interpreter reports one variable taint on line L, with a
\* candidate confirmed, and then nothing, the run ends in Done after exactly
\* one remediation, and line L of the primary shadow file is then the
\* sanitization of every confirmed variable followed by line L of the
\* original.
C1_OneRemediationThenDone ==
    (OneVariableTaint /\ pc \in {"done", "crashed"}) =>
        /\ pc = "done"
        /\ remediations = 1
        /\ LineOf(fs[shadow_file_name].content, oracle_log[1].line)
             = detainting_scripts(tainted_vars, 1) \o <<";", " ">>
                   \o LineOf(fs[target_path].content, oracle_log[1].line)

\* the steps that call create_shadow_file, and the name each writes
CreateSteps == {"main_create", "hv_create_test", "hv_create_patch", "he_create"}
CreateTarget(step) ==
    IF step = "main_create" THEN shadow_file_name ELSE shadow_file_test_name

\* C9: create_shadow_file called with a target that exists raises its
\* assertion and writes nothing: no file is changed by the step.
C9_ExistingTargetNoWrite ==
    [][(pc \in CreateSteps /\ path_exists(fs, CreateTarget(pc))) =>
          /\ pc' = "crashed"
          /\ err'.type = "AssertionError" /\ err'.at = pc
          /\ fs' = fs]_vars

\* create_shadow_file has refused a target that existed
C9_Witness ==
    /\ pc = "crashed"
    /\ err.type = "AssertionError"
    /\ err.at \in CreateSteps
    /\ path_exists(fs, CreateTarget(err.at))

\* C10: when a reserved name, the primary or the secondary, is occupied at
\* the start, the interpreter is never run and the run does not complete.
C10_OccupiedNameAbortsBeforeOracle ==
    preexisting # {} => oracle_runs = 0 /\ pc \notin {"done", "exit"}


\* C11: no step of a run changes the original file: it keeps existing with
\* the content it had, whatever the interpreter reports and however the run
\* ends; every write, removal and rename is of a reserved name.
C11_TargetNeverMutated ==
    [][fs'[target_path] = fs[target_path]]_vars

\* a run that patched the shadow file has ended, normally or by an exception
C11_Witness ==
    /\ remediations >= 1
    /\ pc \in {"exit", "crashed"}
    /\ fs[target_path].exists
    /\ fs[target_path].content \in Programs


\* the run has ended after main created the primary shadow file: main
\* returned, or an exception ended the loop
LoopEnded ==
    \/ pc = "exit"
    \/ pc = "crashed" /\ err.at # "main_create"

\* C12: once the run has ended, by reaching Done or by an exception in the
\* loop, the primary shadow file does not exist.
C12_ShadowRemovedAtEnd ==
    LoopEnded => ~path_exists(fs, shadow_file_name)


\* the steps of a variable-taint diagnosis up to the point where the
\* verdicts of the secondary run are known and no patch is written yet
UpToVerdicts ==
    {"parse_err", "hv_lookup", "hv_create_test", "hv_taint_check",
     "hv_remove_test", "hv_create_patch"}

\* C13: when the secondary run confirms no candidate of a variable-taint
\* diagnostic, the run stops: no patched variant is written and the loop
\* does not return to the interpreter.
C13_AmbiguousDiagnosisStops ==
    (taint_err.kind = "var" /\ tainted_vars = <<>> /\ pc \notin UpToVerdicts)
        => pc = "crashed"


\* C14: a diagnostic of neither shape ends the run in parse_err with an
\* exception whose message quotes the diagnostic as received; the step runs
\* no interpreter and changes no file, so the primary shadow file keeps its
\* content, and nothing follows the exception.
C14_UnrecognizedDiagnosticHalts ==
    [][/\ (pc = "parse_err" /\ taint_err.kind = "other") =>
             /\ pc' = "crashed"
             /\ err'.type = "AssertionError"
             /\ err'.diagnostic = taint_err
             /\ oracle_runs' = oracle_runs
             /\ fs' = fs
       /\ pc = "crashed" => (oracle_runs' = oracle_runs /\ fs' = fs)]_vars

\* the run has stopped on a diagnostic of neither shape, the primary shadow
\* file still on disk
C14_Witness ==
    /\ pc = "crashed" /\ err.at = "parse_err"
    /\ taint_err.kind = "other"
    /\ err.diagnostic = taint_err
    /\ path_exists(fs, shadow_file_name)


\* the steps of the loop, from the creation of the primary shadow file by
\* main until runner returns
LoopSteps ==
    {"runner", "parse_err", "hv_lookup", "hv_create_test", "hv_taint_check",
     "hv_remove_test", "hv_create_patch", "hv_remove_shadow", "hv_rename",
     "hv_summary", "he_create", "he_remove_shadow", "he_rename", "done"}

\* C19: at every step of the loop the primary shadow file exists.  (The
\* secondary shadow file has one name, so there is never more than one.)
C19_PrimaryShadowAlwaysExists ==
    pc \in LoopSteps => path_exists(fs, shadow_file_name)

\* text ends with suffix
EndsWith(text, suffix) ==
    /\ Len(suffix) <= Len(text)
    /\ SubSeq(text, Len(text) - Len(suffix) + 1, Len(text)) = suffix

\* C20: while the loop runs, the primary shadow file, when it is on disk,
\* has as many lines as the original, and each of its lines ends with the
\* original's line of the same number.
C20_ShadowLinesAligned ==
    (pc \in LoopSteps /\ path_exists(fs, shadow_file_name)) =>
        LET shadow == readlines(fs[shadow_file_name].content)
            original == readlines(fs[target_path].content)
        IN /\ Len(shadow) = Len(original)
           /\ \A k \in DOMAIN original : EndsWith(shadow[k], original[k])


\* the variables of a list
ListSet(list) == {list[i] : i \in DOMAIN list}

\* the assigners recorded for the variables of S
Assigners(mapping, S) ==
    UNION {IF DictHas(mapping, v) THEN ListSet(DictGet(mapping, v)) ELSE {} :
              v \in S}

\* S with everything reached from it in at most n assignments
RECURSIVE ReachWithin(_, _, _)
ReachWithin(mapping, S, n) ==
    IF n = 0 THEN S
    ELSE ReachWithin(mapping, S \cup Assigners(mapping, S), n - 1)

\* S with everything reached from it by following the map
Reach(mapping, S) == ReachWithin(mapping, S, Cardinality(TraceVars))

\* no variable is reached from its own assigners
Acyclic(mapping) ==
    \A v \in TraceVars : v \notin Reach(mapping, Assigners(mapping, {v}))

\* C21: on an acyclic map in which the traced variable and every variable
\* reached from it has an entry, recursive_trace returns the variable's own
\* list as direct, and as indirect exactly the variables reached from the
\* members of direct that are not members of direct, each once; no variable
\* is in both lists.
C21_TraceIsReachability ==
    (/\ fn = "recursive_trace"
     /\ Acyclic(arg.mapping)
     /\ \A v \in Reach(arg.mapping, {arg.item}) : DictHas(arg.mapping, v)) =>
        /\ ret.error = "none"
        /\ ret.direct = DictGet(arg.mapping, arg.item)
        /\ ListSet(ret.indirect)
             = Reach(arg.mapping, ListSet(ret.direct)) \ ListSet(ret.direct)
        /\ NoDuplicate(ret.direct) /\ NoDuplicate(ret.indirect)
        /\ ListSet(ret.direct) \cap ListSet(ret.indirect) = {}

\* $a is assigned from $b and $c, $b from $c, $c from nothing: $c is reached
\* through $b and is direct as well
C21_Witness ==
    /\ fn = "recursive_trace"
    /\ arg.item = VarA
    /\ arg.mapping = << <<VarA, <<VarB, VarC>> >>, <<VarB, <<VarC>> >>,
                        <<VarC, <<>> >> >>
    /\ ret.error = "none"
    /\ ret.direct = <<VarB, VarC>>
    /\ ret.indirect = <<>>

\* a chain: $a from $b, $b from $c
C21_WitnessChain ==
    /\ fn = "recursive_trace"
    /\ arg.item = VarA
    /\ arg.mapping = << <<VarA, <<VarB>> >>, <<VarB, <<VarC>> >>,
                        <<VarC, <<>> >> >>
    /\ ret.direct = <<VarB>>
    /\ ret.indirect = <<VarC>>


\* the value '/usr/bin:/bin'
SafePath ==
    <<"/", "u", "s", "r", "/", "b", "i", "n", ":", "/", "b", "i", "n">>

\* the statement that sets entry E: PATH to the safe value, any other entry
\* to the empty string
EnvPatch(E) ==
    E \o <<" ", "=", " ", SQ>> \o (IF E = EnvPath THEN SafePath ELSE <<>>)
      \o <<SQ, ";">>

\* the text new has a line made of the patch, "; " and line L of the text old
SplicedBefore(new, old, L, patch) ==
    \E k \in DOMAIN readlines(new) :
        readlines(new)[k] = patch \o <<";", " ">> \o readlines(old)[L]

\* the lines of the text new are those of the text old, line L with the
\* patch and "; " put before its content
PatchedVariant(new, old, L, patch) ==
    readlines(new) = [readlines(old) EXCEPT ![L] = patch \o <<";", " ">> \o @]

\* the steps of handle_tainted_env after its variant is written: the primary
\* shadow file is removed, the variant takes its name, one report naming the
\* entry is added and the loop goes back to running the interpreter
EnvReplaceAndReport ==
    /\ pc = "he_remove_shadow" =>
          /\ pc' = "he_rename"
          /\ fs'[shadow_file_test_name] = fs[shadow_file_test_name]
    /\ pc = "he_rename" =>
          /\ pc' = "runner"
          /\ fs'[shadow_file_name] = fs[shadow_file_test_name]
          /\ ~path_exists(fs', shadow_file_test_name)
          /\ remediations' = remediations + 1
          /\ reports' = Append(reports, [kind |-> "env", text |-> taint_err.env])

EnvRemediationOnSomeLine ==
    [][/\ (pc = "he_create" /\ preexisting = {}) =>
             /\ pc' = "he_remove_shadow"
             /\ SplicedBefore(fs'[shadow_file_test_name].content,
                              fs[shadow_file_name].content,
                              taint_err.line, EnvPatch(taint_err.env))
             /\ fs'[shadow_file_name] = fs[shadow_file_name]
       /\ EnvReplaceAndReport]_vars

====
